---- MODULE Spec2Model ----
(***************************************************************************)
(* Model of bun-pty's Terminal front-end (src/src/terminal.ts, the class   *)
(* at lines 149-266) running on top of the native pty engine.  The engine  *)
(* (the Rust library behind lib.symbols) and the EventEmitter class of     *)
(* ./interfaces are not part of the sources; they are modelled from the    *)
(* engine contract of the specification (sections 4 and 6).                *)
(*                                                                         *)
(* JavaScript is run-to-completion: a handler (constructor, write, resize, *)
(* kill, one burst of the read loop) runs without interleaving with other  *)
(* JavaScript, but the child process and the OS run concurrently with it.  *)
(* The read loop is therefore split at its bun_pty_read calls, and         *)
(* `running` records which Terminal's loop holds the JavaScript thread.    *)
(***************************************************************************)
EXTENDS Integers, Sequences, FiniteSets, TLC

\* ------------------------------------------------------------------ bounds
MaxCalls == 2         \* write(), resize() and kill() calls per Terminal
MaxHistory == 8       \* events and chunks remembered per Terminal
MaxRestarts == 1      \* calls of _startReadLoop after the constructor's
MaxDirs == 2          \* node_modules directories searched for the package

T == {1, 2}           \* Terminal objects
Focus == {1}          \* the Terminal followed in detail
Other == 3            \* a session spawned by another user of the engine
Handles == {0, 1}

\* --------------------------------------------------------- program constants
DEFAULT_COLS == 80
DEFAULT_ROWS == 24
BufSize == 4096       \* Buffer.allocUnsafe(4096)
CHILD_EXITED == 0 - 2 \* the exit sentinel of bun_pty_read
IOError == 0 - 1      \* a negative, non-sentinel status
NoHandle == 0 - 1     \* private handle = -1
NoPid == 0 - 1        \* private _pid = -1
FirstPid == 101       \* process ids the OS hands out: FirstPid, FirstPid+1, ...

NoSignal == "none"    \* the exit event of the read loop has no signal field
Signals == {"SIGTERM", "SIGKILL"}
SigStatus == 143      \* status the OS reports for a child ended by a signal
ExitStatuses == {0, 1}

\* Bytes and text.  'a' is one byte; U+00E9 is the two bytes C3 A9.
ByteA == 97
ByteLead == 195
ByteCont == 169
CharA == 97
CharE == 233
Replacement == 65533  \* U+FFFD, in UTF-8 the three bytes EF BF BD
Strings == {<<CharA>>, <<CharE>>}

\* ------------------------------------------------------------- conversions
\* Buffer.from(data, "utf8")
RECURSIVE Utf8Encode(_)
Utf8Encode(s) ==
  IF s = <<>> THEN <<>>
  ELSE (IF Head(s) = CharE THEN <<ByteLead, ByteCont>>
        ELSE IF Head(s) = Replacement THEN <<239, 191, 189>>
        ELSE <<ByteA>>)
         \o Utf8Encode(Tail(s))

\* buf.toString("utf8"): ill-formed input decodes to U+FFFD
RECURSIVE Utf8Decode(_)
Utf8Decode(b) ==
  IF b = <<>> THEN <<>>
  ELSE IF Head(b) = ByteA THEN <<CharA>> \o Utf8Decode(Tail(b))
  ELSE IF Head(b) = ByteLead /\ Len(b) >= 2 /\ b[2] = ByteCont
       THEN <<CharE>> \o Utf8Decode(Tail(Tail(b)))
  ELSE <<Replacement>> \o Utf8Decode(Tail(b))

Take(s, n) == SubSeq(s, 1, n)
Drop(s, n) == SubSeq(s, n + 1, Len(s))

Min(a, b) == IF a < b THEN a ELSE b

\* ------------------------------------------------------------------ engine
\* The engine keeps a handle table (handle -> session) and one session per
\* spawned child.  Sessions are named by the Terminal that spawned them; 0 in
\* the table is a free slot.
NoSession == 0

FreshSession ==
  [spawned |-> FALSE, alive |-> FALSE, status |-> 0, bySignal |-> FALSE,
   out |-> <<>>, inq |-> <<>>, sentinel |-> FALSE, fault |-> FALSE,
   pid |-> NoPid, cols |-> 0, rows |-> 0, echo |-> FALSE, script |-> <<>>,
   reaped |-> FALSE]

EngineInit ==
  [tbl |-> [h \in Handles |-> NoSession],
   sess |-> [c \in T \cup {Other} |-> FreshSession],
   nextPid |-> FirstPid]

\* lookup(handle) -> Session | NotFound
Lookup(e, h) == IF h \in Handles THEN e.tbl[h] ELSE NoSession

\* a handle table that hands out its first slot whether or not it is in use
Allocate_FirstSlot(e) == 0

\* allocate(): the smallest non-negative integer not currently in use
Allocate(e) ==
  LET free == {h \in Handles : e.tbl[h] = NoSession}
  IN  IF free = {} THEN NoHandle
      ELSE CHOOSE h \in free : \A g \in free : h <= g

\* spawn: ok = FALSE is a failed pty allocation or process creation
EngSpawn(e, c, echo, script, cols, rows, ok) ==
  LET h == Allocate(e)
  IN  IF ~ok \/ h = NoHandle
      THEN [e |-> e, ret |-> IOError]
      ELSE [e |-> [e EXCEPT !.tbl[h] = c,
                            !.sess[c] = [FreshSession EXCEPT
                                 !.spawned = TRUE, !.alive = TRUE,
                                 !.pid = e.nextPid, !.echo = echo,
                                 !.script = script,
                                 !.cols = cols, !.rows = rows],
                            !.nextPid = e.nextPid + 1],
            ret |-> h]

EngGetPid(e, h) ==
  LET c == Lookup(e, h)
  IN  IF c = NoSession THEN IOError ELSE e.sess[c].pid

\* The values one bun_pty_read may return in engine state e.
ReadOutcomes(e, h, cap) ==
  LET c == Lookup(e, h)
  IN  IF c = NoSession THEN {IOError}
      ELSE LET s == e.sess[c]
           IN  IF s.fault \/ s.sentinel THEN {IOError}
               ELSE IF s.out # <<>> THEN 1..Min(Len(s.out), cap)
               ELSE IF ~s.alive THEN {CHILD_EXITED}
               ELSE {0}

\* read(handle, buffer, capacity) -> n, for the outcome n
EngRead(e, h, n) ==
  LET c == Lookup(e, h)
  IN  IF c = NoSession THEN [e |-> e, ret |-> n, data |-> <<>>]
      ELSE IF n > 0
        THEN [e |-> [e EXCEPT !.sess[c].out = Drop(@, n)], ret |-> n,
              data |-> Take(e.sess[c].out, n)]
      ELSE IF n = CHILD_EXITED
        THEN [e |-> [e EXCEPT !.sess[c].sentinel = TRUE], ret |-> n,
              data |-> <<>>]
      ELSE [e |-> e, ret |-> n, data |-> <<>>]

\* write(handle, bytes, length) -> bytes accepted, or negative on failure;
\* no-op if already exited.  short = TRUE is a write of several bytes of
\* which the pty takes all but the last.
EngWrite(e, h, bytes, short) ==
  LET c == Lookup(e, h)
      k == IF short /\ Len(bytes) >= 2 THEN Len(bytes) - 1 ELSE Len(bytes)
  IN  IF c = NoSession THEN [e |-> e, ret |-> IOError]
      ELSE IF ~e.sess[c].alive THEN [e |-> e, ret |-> 0]
      ELSE IF e.sess[c].fault THEN [e |-> e, ret |-> IOError]
      ELSE [e |-> [e EXCEPT !.sess[c].inq = @ \o Take(bytes, k)], ret |-> k]

\* resize(handle, columns, rows) -> status
EngResize(e, h, cols, rows) ==
  LET c == Lookup(e, h)
  IN  IF c = NoSession THEN [e |-> e, ret |-> IOError]
      ELSE IF cols <= 0 \/ rows <= 0 THEN [e |-> e, ret |-> IOError]
      ELSE IF ~e.sess[c].alive THEN [e |-> e, ret |-> 0]
      ELSE [e |-> [e EXCEPT !.sess[c].cols = cols, !.sess[c].rows = rows],
            ret |-> 0]

\* kill(handle) -> status: forced termination of a child that is still alive
EngKill(e, h) ==
  LET c == Lookup(e, h)
  IN  IF c = NoSession THEN [e |-> e, ret |-> IOError]
      ELSE IF ~e.sess[c].alive THEN [e |-> e, ret |-> 0]
      ELSE [e |-> [e EXCEPT !.sess[c].alive = FALSE,
                            !.sess[c].bySignal = TRUE,
                            !.sess[c].status = SigStatus,
                            !.sess[c].inq = <<>>,
                            !.sess[c].script = <<>>],
            ret |-> 0]

\* get_exit_code(handle) -> last captured exit status
EngGetExitCode(e, h) ==
  LET c == Lookup(e, h)
  IN  IF c = NoSession THEN IOError ELSE e.sess[c].status

\* close(handle): releases the descriptor, reaps the child, frees the handle;
\* a second close of the same handle finds no session and does nothing
EngClose(e, h) ==
  LET c == Lookup(e, h)
  IN  IF c = NoSession THEN e
      ELSE [e EXCEPT !.tbl[h] = NoSession,
                     !.sess[c].alive = FALSE,
                     !.sess[c].reaped = TRUE,
                     !.sess[c].out = <<>>,
                     !.sess[c].inq = <<>>,
                     !.sess[c].script = <<>>]

\* ------------------------------------------------------------ command line
\* Characters are one-character strings; a text is a sequence of them.
MaxArgLen == 2        \* characters per argument
MaxArgs == 2          \* arguments per constructor call

Plain == "a"
Space == " "
SQuote == "'"
Dollar == "$"
Backslash == "\\"
ArgChars == {Plain, Space, SQuote, Dollar}

\* /[\s'"$`\\!*?#&;|<>(){}[\]]/, on the characters above
Special == {Space, SQuote, Dollar, Backslash}

Texts(S, n) == UNION {[1..k -> S] : k \in 0..n}
ArgLists == UNION {[1..k -> Texts(ArgChars, MaxArgLen)] : k \in 0..MaxArgs}
FileNames == {<<Plain>>, <<Plain, Space, Plain>>}

\* arg.replace(/'/g, "'\\''")
RECURSIVE EscapeQuotes(_)
EscapeQuotes(arg) ==
  IF arg = <<>> THEN <<>>
  ELSE (IF Head(arg) = SQuote THEN <<SQuote, Backslash, SQuote, SQuote>>
        ELSE <<Head(arg)>>) \o EscapeQuotes(Tail(arg))

\* quoteArg(arg)
quoteArg(arg) ==
  IF \E i \in 1..Len(arg) : arg[i] \in Special
    THEN <<SQuote>> \o EscapeQuotes(arg) \o <<SQuote>>
    ELSE arg

\* parts.join(" ")
RECURSIVE Join(_)
Join(parts) ==
  IF parts = <<>> THEN <<>>
  ELSE IF Len(parts) = 1 THEN parts[1]
  ELSE parts[1] \o <<Space>> \o Join(Tail(parts))

\* [file, ...args.map(quoteArg)].join(" ")
Cmdline(file, args) ==
  Join(<<file>> \o [i \in 1..Len(args) |-> quoteArg(args[i])])

\* How a POSIX shell splits a line into words: blanks outside quotes
\* separate words, '...' is taken literally, a backslash outside quotes
\* makes the next character literal, and an unquoted $a is replaced by the
\* value of a parameter.
ParamValue == "(value)"
RECURSIVE Sh(_, _, _, _)
Sh(line, mode, cur, acc) ==
  IF line = <<>>
    THEN IF mode = "out" THEN acc ELSE Append(acc, cur)
  ELSE IF mode = "squote"
    THEN IF Head(line) = SQuote THEN Sh(Tail(line), "word", cur, acc)
         ELSE Sh(Tail(line), "squote", Append(cur, Head(line)), acc)
  ELSE IF Head(line) = Space
    THEN Sh(Tail(line), "out", <<>>,
            IF mode = "word" THEN Append(acc, cur) ELSE acc)
  ELSE IF Head(line) = SQuote THEN Sh(Tail(line), "squote", cur, acc)
  ELSE IF Head(line) = Backslash /\ Len(line) >= 2
    THEN Sh(Tail(Tail(line)), "word", Append(cur, line[2]), acc)
  ELSE IF Head(line) = Dollar /\ Len(line) >= 2 /\ line[2] = Plain
    THEN Sh(Tail(Tail(line)), "word", Append(cur, ParamValue), acc)
  ELSE Sh(Tail(line), "word", Append(cur, Head(line)), acc)

ShellWords(line) == Sh(line, "out", <<>>, <<>>)

NoCmd == [stage |-> "none", file |-> <<>>, args |-> <<>>, line |-> <<>>,
          words |-> <<>>]

\* ------------------------------------------------------------- the loader
Platforms == {"darwin", "win32", "linux"}
Archs == {"arm64", "x64"}

\* getLibraryFilename(): the library's file name for process.platform and
\* process.arch
getLibraryFilename(platform, arch) ==
  IF platform = "darwin"
    THEN (IF arch = "arm64" THEN "librust_pty_arm64.dylib"
          ELSE "librust_pty.dylib")
  ELSE IF platform = "win32" THEN "rust_pty.dll"
  ELSE (IF arch = "arm64" THEN "librust_pty_arm64.so" ELSE "librust_pty.so")

\* The directories of nodeModulesPaths in search order, and fallbackPaths
Dirs == 1..MaxDirs
Builds == 1..2

\* Paths: the file BUN_PTY_LIB names, index.mjs and a library of the
\* platform package in a node_modules directory, a library in a build
\* output directory.  An unset or empty BUN_PTY_LIB is NoEnv.
NoEnv == <<>>
EnvLib == <<"env", 0, "custom">>
IndexMjs(d) == <<"pkg", d, "index.mjs">>
PkgLib(d, name) == <<"pkg", d, name>>
BuildLib(j, name) == <<"build", j, name>>

\* What index.mjs holds: it cannot be read, it names no library, or it
\* names one (the platform's file name or another)
Unreadable == "(unreadable)"
NoMatch == "(no match)"
OtherName == "other.so"
Contents(platform, arch) ==
  {Unreadable, NoMatch, OtherName, getLibraryFilename(platform, arch)}

\* The paths the search can ask the file system about.
Paths(platform, arch) ==
  {EnvLib}
    \cup {IndexMjs(d) : d \in Dirs}
    \cup {PkgLib(d, n) : d \in Dirs,
                         n \in {OtherName, getLibraryFilename(platform, arch)}}
    \cup {BuildLib(j, getLibraryFilename(platform, arch)) : j \in Builds}

\* What resolveLibPath gives: a path, or the Error it throws
NotFound == <<"throw", 0, "librust_pty shared library not found">>
Nothing == <<"nothing", 0, "">>

\* The body of  for (const pkgPath of nodeModulesPaths)  for directory d:
\* the path it returns, or Nothing when it goes on to the next directory
PackageLib(m, d) ==
  IF IndexMjs(d) \in m.files
    THEN IF m.content[d] \notin {Unreadable, NoMatch}
              /\ PkgLib(d, m.content[d]) \in m.files
           THEN PkgLib(d, m.content[d])
         ELSE IF PkgLib(d, getLibraryFilename(m.platform, m.arch)) \in m.files
           THEN PkgLib(d, getLibraryFilename(m.platform, m.arch))
         ELSE Nothing
  ELSE Nothing

\* The first element of the sequence of results that is not Nothing
RECURSIVE FirstFound(_)
FirstFound(rs) ==
  IF rs = <<>> THEN Nothing
  ELSE IF Head(rs) # Nothing THEN Head(rs)
  ELSE FirstFound(Tail(rs))

\* for (const path of fallbackPaths) if (existsSync(path)) return path;
BuildPath(m, j) ==
  IF BuildLib(j, getLibraryFilename(m.platform, m.arch)) \in m.files
    THEN BuildLib(j, getLibraryFilename(m.platform, m.arch))
  ELSE Nothing

\* resolveLibPath() on machine m
resolveLibPath(m) ==
  IF m.env # NoEnv /\ m.env \in m.files THEN m.env
  ELSE LET pkg == FirstFound([d \in Dirs |-> PackageLib(m, d)])
       IN  IF pkg # Nothing THEN pkg
           ELSE LET dev == FirstFound([j \in Builds |-> BuildPath(m, j)])
                IN  IF dev # Nothing THEN dev ELSE NotFound

\* The machines the module may be loaded on: platform, architecture,
\* BUN_PTY_LIB, the files that exist and what each index.mjs holds
Machines ==
  UNION {[platform : {p}, arch : {a}, env : {NoEnv, EnvLib},
          files : SUBSET Paths(p, a),
          content : [Dirs -> Contents(p, a)]] : p \in Platforms, a \in Archs}

NoLoad == [stage |-> "none"]

\* ---------------------------------------------------------------- Terminal
VARIABLES
  term,      \* the fields of each Terminal object
  pc,        \* where each Terminal's read loop stands
  running,   \* the Terminal whose read loop holds the JavaScript thread, or 0
  eng,       \* the engine: handle table and sessions
  events,    \* per Terminal, the events fired so far, in order
  chunks,    \* per Terminal, the byte chunks its reads returned, in order
  calls,     \* per Terminal, its lifecycle engine calls and read statuses
  late,      \* per Terminal, the engine calls issued after its bun_pty_close
  foreign,   \* per Terminal, the engine calls that reached another's session
  written,   \* per Terminal, the bytes offered to bun_pty_write, in order
  used,      \* per Terminal, how many calls of write/resize/kill were made,
             \* and how many of them were calls of kill
  negative,  \* per Terminal, the engine calls issued with a negative handle
  post,      \* per Terminal, the engine calls issued after one of its reads
             \* returned a negative value
  cmd,       \* the command line of a constructor call, as it is built and
             \* as a shell splits it
  load       \* the module's search for the engine library: what it finds
             \* on the machine and what resolveLibPath makes of it

vars == <<term, pc, running, eng, events, chunks, calls, late, foreign,
          written, used, negative, post, cmd, load>>

\* What the constructor throws: nothing, or Error("PTY spawn failed")
NoError == "none"
SpawnFailed == "PTY spawn failed"

\* class Terminal: field initialisers
NewTerminal ==
  [phase |-> "new", handle |-> NoHandle, pid |-> NoPid,
   cols |-> DEFAULT_COLS, rows |-> DEFAULT_ROWS,
   readLoop |-> FALSE, closing |-> FALSE, listening |-> FALSE,
   thrown |-> NoError,
   starts |-> 0,   \* history: how often _startReadLoop was called
   loops |-> 0]    \* history: how often it went on to its while loop

\* The part of the state a Terminal method works on.
World ==
  [term |-> term, eng |-> eng, events |-> events, chunks |-> chunks,
   calls |-> calls, late |-> late, foreign |-> foreign, written |-> written,
   used |-> used, negative |-> negative, post |-> post]

LifecycleOps == {"spawn", "get_pid", "kill", "close", "get_exit_code",
                 "sentinel", "read_error"}

Range(s) == {s[i] : i \in 1..Len(s)}

\* A read of the Terminal has returned a negative value: the exit sentinel
\* or a failure.
LoopEnded(cs) == {"sentinel", "read_error"} \cap Range(cs) # {}


\* The histories of events and chunks remember their first MaxHistory
\* entries.
Keep(s, x) == IF Len(s) < MaxHistory THEN Append(s, x) ELSE s

\* Then(w, F) is F applied to the value of w: one statement after another.
Then(w, F(_)) == CHOOSE r \in {F(v) : v \in {w}} : TRUE

\* Terminal t issues engine call op on its handle: bookkeeping of the call.
Issue(w, t, op) ==
  [w EXCEPT
     !.calls[t] = IF op \in LifecycleOps THEN Append(@, op) ELSE @,
     !.late[t] = IF "close" \in Range(w.calls[t]) THEN @ \cup {op} ELSE @,
     !.foreign[t] = IF Lookup(w.eng, w.term[t].handle) \notin {t, NoSession}
                      THEN @ \cup {op} ELSE @,
     !.negative[t] = IF op # "spawn" /\ w.term[t].handle < 0
                       THEN @ \cup {op} ELSE @,
     !.post[t] = IF LoopEnded(w.calls[t]) /\ op \notin {"sentinel", "read_error"}
                   THEN @ \cup {op} ELSE @]

\* Reactions of the caller's listeners to an event: nothing, or one call on
\* the Terminal that fired it.  rs is a stack: its head is what the listeners
\* do at this event, its tail what they do at events fired from inside.
NoReaction == [op |-> "none"]
Reactions ==
  {NoReaction,
   [op |-> "kill", signal |-> "SIGTERM"],
   [op |-> "write", data |-> <<CharA>>, short |-> FALSE],
   [op |-> "resize", cols |-> 100, rows |-> 40]}
ReactionStacks ==
  {<<>>} \cup {<<r>> : r \in Reactions \ {NoReaction}}
         \cup {<<k, r>> : k \in {[op |-> "kill", signal |-> "SIGTERM"]},
                          r \in Reactions \ {NoReaction}}

\* write() without its guard
WriteGuard_Never(tm) == FALSE
\* if (this._closing) return;   (write)
WriteGuard(tm) == tm.closing
\* if (this._closing) return;   (resize)
ResizeGuard(tm) == tm.closing
\* kill() without its guard
KillGuard_Never(tm) == FALSE
\* if (this._closing) return;   (kill)
KillGuard(tm) == tm.closing
\* a loop that goes on after kill()
LoopCond_NoClosing(tm) == tm.readLoop
\* while (this._readLoop && !this._closing)
LoopCond(tm) == tm.readLoop /\ ~tm.closing

\* a read loop that reports exit code 0 whatever the engine says
LoopExitEvent_Zero(code) == [type |-> "exit", exitCode |-> 0, signal |-> NoSignal]
\* { exitCode } fired by the read loop
LoopExitEvent(code) == [type |-> "exit", exitCode |-> code, signal |-> NoSignal]
\* kill() that forgets the signal:  fire({ exitCode: 0 })
KillExitEvent_NoSignal(signal) ==
  [type |-> "exit", exitCode |-> 0, signal |-> NoSignal]
\* { exitCode: 0, signal } fired by kill()
KillExitEvent(signal) == [type |-> "exit", exitCode |-> 0, signal |-> signal]
\* buf.subarray(0, n).toString("utf8")
DataEvent(bytes) == [type |-> "data", payload |-> Utf8Decode(bytes)]

\* A call of write, resize or kill is counted.
Counted(w, t, isKill) ==
  [w EXCEPT !.used[t].calls = @ + 1,
            !.used[t].kills = IF isKill THEN @ + 1 ELSE @]

\* write(data)
DoWrite(w, t, data, short) ==
  IF WriteGuard(w.term[t]) THEN Counted(w, t, FALSE)
  ELSE
    Then(Utf8Encode(data), LAMBDA buf :
    Then(Issue(Counted(w, t, FALSE), t, "write"), LAMBDA w1 :
      [w1 EXCEPT !.eng = EngWrite(w1.eng, w1.term[t].handle, buf, short).e,
                 !.written[t] = @ \o buf]))

\* resize(cols, rows)
DoResize(w, t, cols, rows) ==
  IF ResizeGuard(w.term[t]) THEN Counted(w, t, FALSE)
  ELSE
    Then([Counted(w, t, FALSE) EXCEPT !.term[t].cols = cols,
                                      !.term[t].rows = rows], LAMBDA w1 :
    Then(Issue(w1, t, "resize"), LAMBDA w2 :
      [w2 EXCEPT !.eng = EngResize(w2.eng, w2.term[t].handle, cols, rows).e]))

RECURSIVE DoKill(_, _, _, _)
RECURSIVE React(_, _, _)

\* EventEmitter.fire(ev): the event reaches the listeners registered now,
\* which run before fire returns
Fire(w, t, ev, rs) ==
  Then([w EXCEPT !.events[t] =
          Keep(@, [ev |-> ev, heard |-> w.term[t].listening])], LAMBDA w1 :
    IF w1.term[t].listening THEN React(w1, t, rs) ELSE w1)

\* kill() that closes the handle without killing the child first
DoKill_CloseOnly(w, t, signal, rs) ==
  IF KillGuard(w.term[t]) THEN Counted(w, t, TRUE)
  ELSE
    Then([Counted(w, t, TRUE) EXCEPT !.term[t].closing = TRUE], LAMBDA w1 :
    Then(Issue(w1, t, "close"), LAMBDA w4 :
    Then([w4 EXCEPT !.eng = EngClose(w4.eng, w4.term[t].handle)], LAMBDA w5 :
      Fire(w5, t, KillExitEvent(signal), rs))))

\* kill() that signals the child and reports its exit, and leaves the handle
\* open and the read loop running
DoKill_SignalOnly(w, t, signal, rs) ==
  Then(Issue(Counted(w, t, TRUE), t, "kill"), LAMBDA w2 :
  Then([w2 EXCEPT !.eng = EngKill(w2.eng, w2.term[t].handle).e], LAMBDA w3 :
    Fire(w3, t, KillExitEvent(signal), rs)))

\* kill() that also clears the size of the Terminal
DoKill_ClearsSize(w, t, signal, rs) ==
  IF KillGuard(w.term[t]) THEN Counted(w, t, TRUE)
  ELSE
    Then([Counted(w, t, TRUE) EXCEPT !.term[t].closing = TRUE,
                                     !.term[t].cols = 0,
                                     !.term[t].rows = 0], LAMBDA w1 :
    Then(Issue(w1, t, "kill"), LAMBDA w2 :
    Then([w2 EXCEPT !.eng = EngKill(w2.eng, w2.term[t].handle).e], LAMBDA w3 :
    Then(Issue(w3, t, "close"), LAMBDA w4 :
    Then([w4 EXCEPT !.eng = EngClose(w4.eng, w4.term[t].handle)], LAMBDA w5 :
      Fire(w5, t, KillExitEvent(signal), rs))))))

\* kill() that also forgets the process id
DoKill_ClearsPid(w, t, signal, rs) ==
  IF KillGuard(w.term[t]) THEN Counted(w, t, TRUE)
  ELSE
    Then([Counted(w, t, TRUE) EXCEPT !.term[t].closing = TRUE,
                                     !.term[t].pid = NoPid], LAMBDA w1 :
    Then(Issue(w1, t, "kill"), LAMBDA w2 :
    Then([w2 EXCEPT !.eng = EngKill(w2.eng, w2.term[t].handle).e], LAMBDA w3 :
    Then(Issue(w3, t, "close"), LAMBDA w4 :
    Then([w4 EXCEPT !.eng = EngClose(w4.eng, w4.term[t].handle)], LAMBDA w5 :
      Fire(w5, t, KillExitEvent(signal), rs))))))

\* kill(signal = "SIGTERM")
DoKill(w, t, signal, rs) ==
  IF KillGuard(w.term[t]) THEN Counted(w, t, TRUE)
  ELSE
    Then([Counted(w, t, TRUE) EXCEPT !.term[t].closing = TRUE], LAMBDA w1 :
    Then(Issue(w1, t, "kill"), LAMBDA w2 :
    Then([w2 EXCEPT !.eng = EngKill(w2.eng, w2.term[t].handle).e], LAMBDA w3 :
    Then(Issue(w3, t, "close"), LAMBDA w4 :
    Then([w4 EXCEPT !.eng = EngClose(w4.eng, w4.term[t].handle)], LAMBDA w5 :
      Fire(w5, t, KillExitEvent(signal), rs))))))

\* What the listeners do at one event; a listener that has used up the calls
\* the model allows it does nothing.
React(w, t, rs) ==
  IF rs = <<>> \/ w.used[t].calls >= MaxCalls THEN w
  ELSE IF Head(rs).op = "kill"
         THEN DoKill(w, t, Head(rs).signal, Tail(rs))
  ELSE IF Head(rs).op = "write"
         THEN DoWrite(w, t, Head(rs).data, Head(rs).short)
  ELSE IF Head(rs).op = "resize"
         THEN DoResize(w, t, Head(rs).cols, Head(rs).rows)
  ELSE w

\* opts.cols ?? DEFAULT_COLS, opts.rows ?? DEFAULT_ROWS
Unset == 0 - 1
OrDefault(v, d) == IF v = Unset THEN d ELSE v
CtorSizes == {<<Unset, Unset>>, <<100, 40>>}
ResizeSizes == {<<100, 40>>, <<0, 40>>}

\* The programs a Terminal is constructed with: cat echoes its input; the
\* others print a text (as UTF-8) and ignore their input.
Files == {"cat", "sleep", "echo a", "echo e-acute"}
ScriptOf(file) ==
  IF file = "echo a" THEN Utf8Encode(<<CharA>>)
  ELSE IF file = "echo e-acute" THEN Utf8Encode(<<CharE>>)
  ELSE <<>>

\* a _startReadLoop without  if (this._readLoop) return;
StartGuard_Never(tm) == FALSE
\* if (this._readLoop) return;
StartGuard(tm) == tm.readLoop

\* _startReadLoop() up to its while loop
DoStartReadLoop(w, t) ==
  Then([w EXCEPT !.term[t].starts = @ + 1], LAMBDA w1 :
    IF StartGuard(w1.term[t]) THEN w1
    ELSE [w1 EXCEPT !.term[t].readLoop = TRUE,
                    !.term[t].loops = @ + 1])

\* The call of _startReadLoop that led from v to w went on to the loop.
Entered(v, w, t) == w.term[t].loops > v.term[t].loops

\* a constructor without  if (this.handle < 0) throw ...
DoConstruct_NoCheck(w, t, file, size, ok) ==
  Then(Issue([w EXCEPT !.term[t].cols = OrDefault(size[1], DEFAULT_COLS),
                       !.term[t].rows = OrDefault(size[2], DEFAULT_ROWS)],
             t, "spawn"), LAMBDA w1 :
  Then(EngSpawn(w1.eng, t, file = "cat", ScriptOf(file),
                w1.term[t].cols, w1.term[t].rows, ok), LAMBDA r :
  Then([w1 EXCEPT !.eng = r.e, !.term[t].handle = r.ret], LAMBDA w2 :
      Then(Issue(w2, t, "get_pid"), LAMBDA w3 :
      Then([w3 EXCEPT !.term[t].pid = EngGetPid(w3.eng, r.ret)], LAMBDA w4 :
      Then(DoStartReadLoop(w4, t), LAMBDA w5 :
        [w5 EXCEPT !.term[t].phase =
                     IF Entered(w4, w5, t) THEN "ctor" ELSE "ready"]))))))

\* a constructor that never asks the engine for the process id
DoConstruct_NoPid(w, t, file, size, ok) ==
  Then(Issue([w EXCEPT !.term[t].cols = OrDefault(size[1], DEFAULT_COLS),
                       !.term[t].rows = OrDefault(size[2], DEFAULT_ROWS)],
             t, "spawn"), LAMBDA w1 :
  Then(EngSpawn(w1.eng, t, file = "cat", ScriptOf(file),
                w1.term[t].cols, w1.term[t].rows, ok), LAMBDA r :
  Then([w1 EXCEPT !.eng = r.e, !.term[t].handle = r.ret], LAMBDA w2 :
    IF r.ret < 0 THEN [w2 EXCEPT !.term[t].phase = "failed",
                                 !.term[t].thrown = SpawnFailed]
    ELSE
      Then(DoStartReadLoop(w2, t), LAMBDA w5 :
        [w5 EXCEPT !.term[t].phase =
                     IF Entered(w2, w5, t) THEN "ctor" ELSE "ready"]))))

\* constructor(file, args, opts), with its call of _startReadLoop up to
\* the while loop
DoConstruct(w, t, file, size, ok) ==
  Then(Issue([w EXCEPT !.term[t].cols = OrDefault(size[1], DEFAULT_COLS),
                       !.term[t].rows = OrDefault(size[2], DEFAULT_ROWS)],
             t, "spawn"), LAMBDA w1 :
  Then(EngSpawn(w1.eng, t, file = "cat", ScriptOf(file),
                w1.term[t].cols, w1.term[t].rows, ok), LAMBDA r :
  Then([w1 EXCEPT !.eng = r.e, !.term[t].handle = r.ret], LAMBDA w2 :
    IF r.ret < 0 THEN [w2 EXCEPT !.term[t].phase = "failed",
                                 !.term[t].thrown = SpawnFailed]
    ELSE
      Then(Issue(w2, t, "get_pid"), LAMBDA w3 :
      Then([w3 EXCEPT !.term[t].pid = EngGetPid(w3.eng, r.ret)], LAMBDA w4 :
      Then(DoStartReadLoop(w4, t), LAMBDA w5 :
        [w5 EXCEPT !.term[t].phase =
                     IF Entered(w4, w5, t) THEN "ctor" ELSE "ready"]))))))

\* a read loop that takes 0 for a failure:  } else if (n <= 0) { break; }
LoopTurn_ZeroBreaks(w, t, n, rs) ==
  IF ~LoopCond(w.term[t]) THEN [w |-> w, pc |-> "done"]
  ELSE
    Then(Issue(w, t, "read"), LAMBDA w1 :
    Then(EngRead(w1.eng, w1.term[t].handle, n), LAMBDA r :
    Then([w1 EXCEPT !.eng = r.e], LAMBDA w2 :
      IF n > 0
        THEN [w |-> Then([w2 EXCEPT !.chunks[t] = Keep(@, r.data)],
                      LAMBDA w3 : Fire(w3, t, DataEvent(r.data), rs)),
              pc |-> "top"]
      ELSE IF n = CHILD_EXITED
        THEN [w |-> Then(Issue(w2, t, "sentinel"), LAMBDA w3 :
                    Then(Issue(w3, t, "get_exit_code"), LAMBDA w4 :
                      Fire(w4, t,
                           LoopExitEvent(EngGetExitCode(w4.eng,
                                                        w4.term[t].handle)),
                           rs))),
              pc |-> "done"]
      ELSE [w |-> w2, pc |-> "done"])))

\* a read loop without the break after the exit event
LoopTurn_NoBreak(w, t, n, rs) ==
  IF ~LoopCond(w.term[t]) THEN [w |-> w, pc |-> "done"]
  ELSE
    Then(Issue(w, t, "read"), LAMBDA w1 :
    Then(EngRead(w1.eng, w1.term[t].handle, n), LAMBDA r :
    Then([w1 EXCEPT !.eng = r.e], LAMBDA w2 :
      IF n > 0
        THEN [w |-> Then([w2 EXCEPT !.chunks[t] = Keep(@, r.data)],
                      LAMBDA w3 : Fire(w3, t, DataEvent(r.data), rs)),
              pc |-> "top"]
      ELSE IF n = CHILD_EXITED
        THEN [w |-> Then(Issue(w2, t, "sentinel"), LAMBDA w3 :
                    Then(Issue(w3, t, "get_exit_code"), LAMBDA w4 :
                      Fire(w4, t,
                           LoopExitEvent(EngGetExitCode(w4.eng,
                                                        w4.term[t].handle)),
                           rs))),
              pc |-> "top"]
      ELSE IF n < 0
        THEN [w |-> Issue(w2, t, "read_error"), pc |-> "done"]
      ELSE [w |-> w2, pc |-> "sleep"])))

\* a read loop that closes the handle as soon as it reads the sentinel, and
\* asks for the exit code afterwards
LoopTurn_CloseFirst(w, t, n, rs) ==
  IF ~LoopCond(w.term[t]) THEN [w |-> w, pc |-> "done"]
  ELSE
    Then(Issue(w, t, "read"), LAMBDA w1 :
    Then(EngRead(w1.eng, w1.term[t].handle, n), LAMBDA r :
    Then([w1 EXCEPT !.eng = r.e], LAMBDA w2 :
      IF n > 0
        THEN [w |-> Then([w2 EXCEPT !.chunks[t] = Keep(@, r.data)],
                      LAMBDA w3 : Fire(w3, t, DataEvent(r.data), rs)),
              pc |-> "top"]
      ELSE IF n = CHILD_EXITED
        THEN [w |-> Then(Issue(Issue(w2, t, "sentinel"), t, "close"),
                      LAMBDA w3 :
                    Then([w3 EXCEPT !.eng = EngClose(w3.eng,
                                                     w3.term[t].handle)],
                      LAMBDA w4 :
                    Then(Issue(w4, t, "get_exit_code"), LAMBDA w5 :
                      Fire(w5, t,
                           LoopExitEvent(EngGetExitCode(w5.eng,
                                                        w5.term[t].handle)),
                           rs)))),
              pc |-> "done"]
      ELSE IF n < 0
        THEN [w |-> Issue(w2, t, "read_error"), pc |-> "done"]
      ELSE [w |-> w2, pc |-> "sleep"])))

\* a read loop that sleeps and tries again after a failed read
LoopTurn_RetryOnError(w, t, n, rs) ==
  IF ~LoopCond(w.term[t]) THEN [w |-> w, pc |-> "done"]
  ELSE
    Then(Issue(w, t, "read"), LAMBDA w1 :
    Then(EngRead(w1.eng, w1.term[t].handle, n), LAMBDA r :
    Then([w1 EXCEPT !.eng = r.e], LAMBDA w2 :
      IF n > 0
        THEN [w |-> Then([w2 EXCEPT !.chunks[t] = Keep(@, r.data)],
                      LAMBDA w3 : Fire(w3, t, DataEvent(r.data), rs)),
              pc |-> "top"]
      ELSE IF n = CHILD_EXITED
        THEN [w |-> Then(Issue(w2, t, "sentinel"), LAMBDA w3 :
                    Then(Issue(w3, t, "get_exit_code"), LAMBDA w4 :
                      Fire(w4, t,
                           LoopExitEvent(EngGetExitCode(w4.eng,
                                                        w4.term[t].handle)),
                           rs))),
              pc |-> "done"]
      ELSE [w |-> w2, pc |-> "sleep"])))

\* One turn of the while loop of _startReadLoop for the read outcome n.
\* The result says where the loop stands afterwards: "top" (it goes round
\* again without yielding), "sleep" (it awaits the timer) or "done".
LoopTurn(w, t, n, rs) ==
  IF ~LoopCond(w.term[t]) THEN [w |-> w, pc |-> "done"]
  ELSE
    Then(Issue(w, t, "read"), LAMBDA w1 :
    Then(EngRead(w1.eng, w1.term[t].handle, n), LAMBDA r :
    Then([w1 EXCEPT !.eng = r.e], LAMBDA w2 :
      IF n > 0
        THEN [w |-> Then([w2 EXCEPT !.chunks[t] = Keep(@, r.data)],
                      LAMBDA w3 : Fire(w3, t, DataEvent(r.data), rs)),
              pc |-> "top"]
      ELSE IF n = CHILD_EXITED
        THEN [w |-> Then(Issue(w2, t, "sentinel"), LAMBDA w3 :
                    Then(Issue(w3, t, "get_exit_code"), LAMBDA w4 :
                      Fire(w4, t,
                           LoopExitEvent(EngGetExitCode(w4.eng,
                                                        w4.term[t].handle)),
                           rs))),
              pc |-> "done"]
      ELSE IF n < 0
        THEN [w |-> Issue(w2, t, "read_error"), pc |-> "done"]
      ELSE [w |-> w2, pc |-> "sleep"])))

\* The constructor returns when the loop it started first yields or ends.
Returned(tm, p) ==
  IF tm.phase = "ctor" /\ p # "top" THEN [tm EXCEPT !.phase = "ready"] ELSE tm

Adopt(w) ==
  \E v \in {w} :
    /\ term' = v.term
    /\ eng' = v.eng
    /\ events' = v.events
    /\ chunks' = v.chunks
    /\ calls' = v.calls
    /\ late' = v.late
    /\ foreign' = v.foreign
    /\ written' = v.written
    /\ used' = v.used
    /\ negative' = v.negative
    /\ post' = v.post
    /\ cmd' = cmd
    /\ load' = load

\* No Terminal has been constructed yet.
Fresh ==
  /\ term = [t \in T |-> NewTerminal]
  /\ pc = [t \in T |-> "none"]
  /\ running = 0
  /\ eng = EngineInit
  /\ events = [t \in T |-> <<>>]
  /\ chunks = [t \in T |-> <<>>]
  /\ calls = [t \in T |-> <<>>]
  /\ late = [t \in T |-> {}]
  /\ foreign = [t \in T |-> {}]
  /\ written = [t \in T |-> <<>>]
  /\ used = [t \in T |-> [calls |-> 0, kills |-> 0]]
  /\ negative = [t \in T |-> {}]
  /\ post = [t \in T |-> {}]

Init == Fresh /\ cmd = NoCmd /\ load = NoLoad

\* new Terminal(file, args, opts)
Construct(t) ==
  /\ running = 0
  /\ term[t].phase = "new"
  /\ \E file \in Files, size \in CtorSizes, ok \in BOOLEAN, w0 \in {World} :
       \E w \in {DoConstruct(w0, t, file, size, ok)} :
           /\ Adopt(w)
           /\ IF w.term[t].phase = "ctor"
                THEN pc' = [pc EXCEPT ![t] = "top"] /\ running' = t
                ELSE UNCHANGED <<pc, running>>

\* The read loop goes round once, its read returns n and the listeners
\* react with rs.
LoopStepWith(t, n, rs) ==
  /\ \/ pc[t] = "top" /\ running = t
     \/ pc[t] = "sleep" /\ running = 0
  /\ \E w0 \in {World} :
       \E r \in {LoopTurn(w0, t, n, rs)} :
           /\ Adopt([r.w EXCEPT !.term[t] = Returned(@, r.pc)])
           /\ pc' = [pc EXCEPT ![t] = r.pc]
           /\ running' = IF r.pc = "top" THEN t ELSE 0

\* The read loop goes round once: synchronously after the previous turn, or
\* when its timer fires.
LoopStep(t) ==
  \E n \in ReadOutcomes(eng, term[t].handle, BufSize),
     rs \in ReactionStacks :
    LoopStepWith(t, n, rs)

\* terminal.onData(listener); terminal.onExit(listener)
Listen(t) ==
  /\ running = 0
  /\ term[t].phase = "ready"
  /\ ~term[t].listening
  /\ term' = [term EXCEPT ![t].listening = TRUE]
  /\ UNCHANGED <<pc, running, eng, events, chunks, calls, late, foreign,
                 written, used, negative, post, cmd, load>>

\* terminal.write(data)
Write(t) ==
  /\ running = 0
  /\ term[t].phase = "ready"
  /\ used[t].calls < MaxCalls
  /\ \E data \in Strings, short \in BOOLEAN, w0 \in {World} :
       Adopt(DoWrite(w0, t, data, short))
  /\ UNCHANGED <<pc, running>>

\* terminal.resize(cols, rows)
Resize(t) ==
  /\ running = 0
  /\ term[t].phase = "ready"
  /\ used[t].calls < MaxCalls
  /\ \E size \in ResizeSizes, w0 \in {World} :
       Adopt(DoResize(w0, t, size[1], size[2]))
  /\ UNCHANGED <<pc, running>>

\* terminal.kill(signal)
Kill(t) ==
  /\ running = 0
  /\ term[t].phase = "ready"
  /\ used[t].calls < MaxCalls
  /\ \E signal \in Signals, rs \in ReactionStacks, w0 \in {World} :
       Adopt(DoKill(w0, t, signal, rs))
  /\ UNCHANGED <<pc, running>>

\* The child prints the next byte of its text.
ChildPrint(c) ==
  /\ eng.sess[c].alive
  /\ eng.sess[c].script # <<>>
  /\ eng' = [eng EXCEPT !.sess[c].out = Append(@, Head(eng.sess[c].script)),
                        !.sess[c].script = Tail(@)]
  /\ UNCHANGED <<term, pc, running, events, chunks, calls, late, foreign,
                 written, used, negative, post, cmd, load>>

\* An echoing child copies the next byte of its input to its output.
ChildEcho(c) ==
  /\ eng.sess[c].alive
  /\ eng.sess[c].echo
  /\ eng.sess[c].inq # <<>>
  /\ eng' = [eng EXCEPT !.sess[c].out = Append(@, Head(eng.sess[c].inq)),
                        !.sess[c].inq = Tail(@)]
  /\ UNCHANGED <<term, pc, running, events, chunks, calls, late, foreign,
                 written, used, negative, post, cmd, load>>

\* The child terminates on its own with status s.
ChildExit(c) ==
  /\ eng.sess[c].alive
  /\ \E s \in ExitStatuses :
       eng' = [eng EXCEPT !.sess[c].alive = FALSE, !.sess[c].status = s,
                          !.sess[c].inq = <<>>, !.sess[c].script = <<>>]
  /\ UNCHANGED <<term, pc, running, events, chunks, calls, late, foreign,
                 written, used, negative, post, cmd, load>>

\* The descriptor of an open session becomes unusable (hard I/O failure).
Fault(c) ==
  /\ eng.sess[c].spawned
  /\ ~eng.sess[c].reaped
  /\ ~eng.sess[c].fault
  /\ ~eng.sess[c].sentinel
  /\ eng' = [eng EXCEPT !.sess[c].fault = TRUE]
  /\ UNCHANGED <<term, pc, running, events, chunks, calls, late, foreign,
                 written, used, negative, post, cmd, load>>

\* Another user of the engine spawns a session: it gets the smallest free
\* handle.
OtherSpawn ==
  /\ ~eng.sess[Other].spawned
  /\ eng' = EngSpawn(eng, Other, FALSE, <<>>, DEFAULT_COLS, DEFAULT_ROWS, TRUE).e
  /\ UNCHANGED <<term, pc, running, events, chunks, calls, late, foreign,
                 written, used, negative, post, cmd, load>>

Next ==
  \/ \E t \in Focus :
       \/ Construct(t)
       \/ LoopStep(t)
       \/ Listen(t)
       \/ Write(t)
       \/ Resize(t)
       \/ Kill(t)
       \/ ChildPrint(t)
       \/ ChildEcho(t)
       \/ ChildExit(t)
       \/ Fault(t)
  \/ OtherSpawn

Spec == Init /\ [][Next]_vars

\* The timer of a sleeping read loop fires and the loop goes on; nothing
\* obliges the caller to call write, resize or kill, nor the child to act.
FairSpec == Spec /\ \A t \in T : WF_vars(LoopStep(t))

\* The command line alone: the constructor is called with a file name and
\* arguments, builds the line, and a shell splits the line into words.
CmdInit ==
  /\ Fresh
  /\ load = NoLoad
  /\ cmd \in {[NoCmd EXCEPT !.stage = "called", !.file = f, !.args = a] :
                f \in FileNames, a \in ArgLists}

\* const cmdline = [file, ...args.map(quoteArg)].join(" ")
BuildCmdline ==
  /\ cmd.stage = "called"
  /\ cmd' = [cmd EXCEPT !.stage = "built", !.line = Cmdline(cmd.file, cmd.args)]
  /\ UNCHANGED <<term, pc, running, eng, events, chunks, calls, late,
                 foreign, written, used, negative, post, load>>

\* the shell splits the line it is given
ShellSplit ==
  /\ cmd.stage = "built"
  /\ cmd' = [cmd EXCEPT !.stage = "split", !.words = ShellWords(cmd.line)]
  /\ UNCHANGED <<term, pc, running, eng, events, chunks, calls, late,
                 foreign, written, used, negative, post, load>>

CmdNext == BuildCmdline \/ ShellSplit

CmdSpec == CmdInit /\ [][CmdNext]_vars

\* The library search alone: the module is loaded on some machine and
\* resolveLibPath runs once.
LoadInit ==
  /\ Fresh
  /\ cmd = NoCmd
  /\ load \in {[stage |-> "loading", m |-> m] : m \in Machines}

\* const libPath = resolveLibPath();
Resolve ==
  /\ load.stage = "loading"
  /\ load' = [stage |-> "resolved", m |-> load.m,
              libPath |-> resolveLibPath(load.m)]
  /\ UNCHANGED <<term, pc, running, eng, events, chunks, calls, late,
                 foreign, written, used, negative, post, cmd>>

LoadNext == Resolve

LoadSpec == LoadInit /\ [][LoadNext]_vars

\* Two Terminals side by side: each is constructed, polls, sees its child
\* exit and is killed.
PairNext ==
  \E t \in T :
    \/ Construct(t)
    \/ LoopStep(t)
    \/ Kill(t)
    \/ ChildExit(t)

PairSpec == Init /\ [][PairNext]_vars

\* this._startReadLoop() called once more, after the constructor's call
StartReadLoopAgain(t) ==
  /\ running = 0
  /\ term[t].phase = "ready"
  /\ term[t].starts <= MaxRestarts
  /\ \E w0 \in {World} :
       \E w \in {DoStartReadLoop(w0, t)} :
           /\ Adopt(w)
           /\ IF Entered(w0, w, t)
                THEN pc' = [pc EXCEPT ![t] = "top"] /\ running' = t
                ELSE UNCHANGED <<pc, running>>

\* One Terminal whose _startReadLoop is called again at any moment
\* between two callbacks.
LoopNext ==
  \E t \in Focus :
    \/ Construct(t)
    \/ LoopStep(t)
    \/ StartReadLoopAgain(t)
    \/ Write(t)
    \/ Kill(t)
    \/ ChildPrint(t)
    \/ ChildEcho(t)
    \/ ChildExit(t)

LoopSpec == Init /\ [][LoopNext]_vars

\* A child that never stops printing (yes): whenever its output has been
\* read it has printed again.
BusyConstruct(t) ==
  /\ running = 0
  /\ term[t].phase = "new"
  /\ \E w0 \in {World} :
       \E w \in {DoConstruct(w0, t, "yes", <<Unset, Unset>>, TRUE)} :
           /\ Adopt(w)
           /\ pc' = [pc EXCEPT ![t] = "top"]
           /\ running' = t

Chatter(c) ==
  /\ eng.sess[c].alive
  /\ eng.sess[c].out = <<>>
  /\ eng' = [eng EXCEPT !.sess[c].out = <<ByteA>>]
  /\ UNCHANGED <<term, pc, running, events, chunks, calls, late, foreign,
                 written, used, negative, post, cmd, load>>

BusyNext ==
  \E t \in Focus :
    \/ BusyConstruct(t)
    \/ LoopStep(t)
    \/ Listen(t)
    \/ Kill(t)
    \/ Chatter(t)

BusySpec == Init /\ [][BusyNext]_vars

\* The loop goes on when it can, the child prints when it can, and a caller
\* who can call kill() does so in the end.
FairBusySpec ==
  BusySpec /\ \A t \in Focus : /\ WF_vars(LoopStep(t))
                               /\ WF_vars(Chatter(t))
                               /\ WF_vars(Kill(t))

\* ------------------------------------------------------------------ claims
ExitEvents(t) == SelectSeq(events[t], LAMBDA x : x.ev.type = "exit")
DataEvents(t) == SelectSeq(events[t], LAMBDA x : x.ev.type = "data")
Count(s, v) == Cardinality({i \in 1..Len(s) : s[i] = v})
Closed(t) == "close" \in Range(calls[t])
RECURSIVE Payloads(_)
Payloads(es) ==
  IF es = <<>> THEN <<>> ELSE Head(es).ev.payload \o Payloads(Tail(es))

\* C1: the onExit event is fired at most once per Terminal, also when kill()
\* is called after the read loop has reported the child's exit.
C1_ExitAtMostOnce == \A t \in T : Len(ExitEvents(t)) <= 1

\* C2: when the child terminates on its own and kill() has not been called,
\* every exit event carries the child's status, which is what
\* bun_pty_get_exit_code returns for the handle, and no signal.
C2_NaturalExitCode ==
  \A t \in T :
    used[t].kills = 0 =>
      \A i \in 1..Len(ExitEvents(t)) :
        LET e == ExitEvents(t)[i].ev
        IN  /\ ~eng.sess[t].alive
            /\ ~eng.sess[t].bySignal
            /\ e.exitCode = eng.sess[t].status
            /\ e.exitCode = EngGetExitCode(eng, term[t].handle)

C2_Witness ==
  \E t \in T :
    /\ used[t].kills = 0
    /\ Len(ExitEvents(t)) = 1
    /\ ExitEvents(t)[1].ev.exitCode = 1
    /\ eng.sess[t].status = 1

\* C3: every exit event carries the termination status the OS reported: the
\* exit status of a child that terminated on its own, and a signal for a
\* child that was ended by a signal.
C3_ExitCarriesOsStatus ==
  \A t \in T :
    \A i \in 1..Len(ExitEvents(t)) :
      LET e == ExitEvents(t)[i].ev
      IN  IF eng.sess[t].bySignal THEN e.signal # NoSignal
          ELSE e.exitCode = eng.sess[t].status

\* C4: after its bun_pty_close a Terminal issues no engine call with that
\* handle, so no call of it reaches a session that was given the handle later.
C4_NoCallAfterClose == \A t \in T : late[t] = {} /\ foreign[t] = {}

C4_Witness ==
  \E t \in T :
    /\ Closed(t)
    /\ Lookup(eng, term[t].handle) = Other
    /\ used[t].calls = MaxCalls
    /\ pc[t] = "done"
    /\ \E i \in 1..Len(events[t]) : events[t][i].heard

\* C5: bun_pty_close is issued at most once per handle, and only after a read
\* returned -2 or right after bun_pty_kill on the same handle.
C5_CloseOnceAfterKill ==
  \A t \in T :
    /\ Count(calls[t], "close") <= 1
    /\ \A i \in 1..Len(calls[t]) :
         calls[t][i] = "close" =>
           \/ i > 1 /\ calls[t][i - 1] = "kill"
           \/ \E j \in 1..(i - 1) : calls[t][j] = "sentinel"

C5_Witness ==
  \E t \in T :
    /\ Count(calls[t], "close") = 1
    /\ used[t].kills >= 2
    /\ eng.sess[t].reaped

\* C6: a call of kill() after an earlier call of kill() changes nothing: no
\* Terminal field, no engine call, no event; and however often kill() is
\* called there is one bun_pty_kill, one bun_pty_close and one event of kill().
KilledOnce(t) ==
  /\ Count(calls[t], "kill") = 1
  /\ Count(calls[t], "close") = 1
  /\ Len(SelectSeq(events[t], LAMBDA x : x.ev.type = "exit"
                                          /\ x.ev.signal # NoSignal)) = 1

C6_KillIdempotent ==
  [][\A t \in T :
       used'[t].kills > used[t].kills =>
         /\ KilledOnce(t)'
         /\ used[t].kills >= 1 =>
              UNCHANGED <<term, pc, running, eng, events, chunks, calls,
                          late, foreign, written>>]_vars

C6_Witness ==
  \E t \in T :
    /\ used[t].kills = 2
    /\ term[t].closing
    /\ Len(ExitEvents(t)) = 1

\* C7: once a Terminal has delivered its exit event, bun_pty_close has been
\* or is eventually issued on its handle.
C7_EventuallyClosed ==
  \A t \in T : (Len(ExitEvents(t)) > 0) ~> Closed(t)

\* C8: every Terminal whose child terminates eventually delivers an onExit
\* event, whatever the reads return along the way.
C8_ExitEventuallyDelivered ==
  \A t \in T :
    (eng.sess[t].spawned /\ ~eng.sess[t].alive) ~> (Len(ExitEvents(t)) > 0)

\* C9: once an echoing child has echoed all its input and the read loop has
\* read all its output, the onData payloads are exactly the bytes written,
\* in the order written.
Quiescent(t) ==
  /\ term[t].phase = "ready"
  /\ ~term[t].closing
  /\ pc[t] = "sleep"
  /\ eng.sess[t].echo
  /\ eng.sess[t].alive
  /\ ~eng.sess[t].fault
  /\ eng.sess[t].inq = <<>>
  /\ eng.sess[t].out = <<>>

C9_EchoDeliversWritten ==
  \A t \in T :
    Quiescent(t) => Utf8Encode(Payloads(DataEvents(t))) = written[t]

\* C10: every read that returns n > 0 produces exactly one onData event,
\* carrying exactly the n bytes read, and the events are in the order of the
\* reads.
C10_DataEventPerChunk ==
  \A t \in T :
    /\ Len(DataEvents(t)) = Len(chunks[t])
    /\ \A i \in 1..Len(chunks[t]) :
         Utf8Encode(DataEvents(t)[i].ev.payload) = chunks[t][i]

ZeroRead(t) ==
  /\ LoopCond(term[t])
  /\ ReadOutcomes(eng, term[t].handle, BufSize) = {0}
  /\ LoopStep(t)

OnlyZeroReads(t) ==
  /\ term[t].phase \in {"ctor", "ready"}
  /\ chunks[t] = <<>>
  /\ "sentinel" \notin Range(calls[t])
  /\ "read_error" \notin Range(calls[t])
  /\ used[t].kills = 0

C12_ZeroReadPollsAgain ==
  /\ [](\A t \in T :
          OnlyZeroReads(t) =>
            /\ events[t] = <<>>
            /\ pc[t] \in {"top", "sleep"}
            /\ LoopCond(term[t]))
  /\ [][\A t \in T :
          ZeroRead(t) =>
            /\ pc'[t] = "sleep"
            /\ [term'[t] EXCEPT !.phase = term[t].phase] = term[t]
            /\ UNCHANGED <<eng, events, chunks, calls, late, foreign,
                           written, used, negative, post, cmd, load>>]_vars

\* the loop sleeps after a read of 0 on a live child, with listeners
\* registered and calls of write and resize made, and no event was fired
C12_Witness ==
  \E t \in T :
    /\ OnlyZeroReads(t)
    /\ pc[t] = "sleep"
    /\ term[t].listening
    /\ eng.sess[t].alive
    /\ used[t].calls = MaxCalls
    /\ events[t] = <<>>

\* C13: when bun_pty_spawn returns a negative handle the constructor throws
\* Error("PTY spawn failed"), starts no read loop and issues no other engine
\* call with that value; the caller never holds a Terminal whose handle is
\* negative.
C13_SpawnFailureThrows ==
  \A t \in T :
    /\ negative[t] = {}
    /\ (term[t].phase # "new" /\ term[t].handle < 0) =>
         /\ term[t].phase = "failed"
         /\ term[t].thrown = SpawnFailed
         /\ ~term[t].readLoop
         /\ pc[t] = "none"
         /\ calls[t] = <<"spawn">>
         /\ events[t] = <<>>
         /\ used[t].calls = 0
    /\ term[t].phase \in {"ctor", "ready"} =>
         term[t].handle >= 0 /\ term[t].thrown = NoError

\* a construction that failed because the engine could not create the pty or
\* the process
C13_Witness ==
  \E t \in T :
    /\ term[t].phase = "failed"
    /\ term[t].handle < 0
    /\ calls[t] = <<"spawn">>
    /\ ~eng.sess[t].spawned

\* C14: a constructed Terminal has a non-negative handle and a positive pid,
\* the process id bun_pty_get_pid gave for its handle when it was spawned:
\* that of its own child, for as long as the Terminal exists.
C14_HandleAndPid ==
  \A t \in T :
    term[t].phase \in {"ctor", "ready"} =>
      /\ term[t].handle >= 0
      /\ term[t].pid > 0
      /\ term[t].pid = eng.sess[t].pid
      /\ Lookup(eng, term[t].handle) = t =>
           term[t].pid = EngGetPid(eng, term[t].handle)
      /\ eng.sess[Other].spawned => term[t].pid # eng.sess[Other].pid

\* a Terminal spawned after another session: neither its handle nor its pid
\* is the first one, and its handle was later closed and given away
C14_Witness ==
  \E t \in T :
    /\ term[t].phase = "ready"
    /\ term[t].handle = 1
    /\ term[t].pid = FirstPid + 1
    /\ Closed(t)

\* C15: the cols and rows of a Terminal are strictly positive in every
\* state; a resize to a zero or negative dimension is rejected and leaves
\* them as they were.
C15_SizePositive ==
  \A t \in T :
    term[t].phase \in {"ctor", "ready"} =>
      term[t].cols > 0 /\ term[t].rows > 0

\* C16: the size a Terminal reports is the size in force on its pty: after
\* resize(c, r) on a Terminal that was not killed the engine has applied
\* (c, r), and a size the engine refused is not reported.
C16_SizeInForce ==
  \A t \in T :
    (/\ term[t].phase = "ready"
     /\ ~term[t].closing
     /\ Lookup(eng, term[t].handle) = t
     /\ eng.sess[t].alive) =>
      /\ term[t].cols = eng.sess[t].cols
      /\ term[t].rows = eng.sess[t].rows

\* C17: a write() made after the exit event was delivered, by natural exit
\* or by kill(), delivers no byte to any pty and changes no field of the
\* Terminal, and nothing else either.
ExitDelivered(t) == Len(ExitEvents(t)) > 0

C17_WriteAfterExitNoOp ==
  /\ [](\A t \in T :
          ExitDelivered(t) =>
            \A c \in T \cup {Other} : eng.sess[c].inq = <<>>)
  /\ [][\A t \in T :
          (ExitDelivered(t) /\ Write(t)) =>
            UNCHANGED <<term, pc, running, eng, events, chunks>>]_vars

\* a write() that reached the engine after the read loop reported the exit
C17_Witness ==
  \E t \in T :
    /\ ExitDelivered(t)
    /\ ~term[t].closing
    /\ "write" \in post[t]
    /\ written[t] # <<>>
    /\ eng.sess[t].echo

\* C18: a resize() made after the exit event was delivered, by natural exit
\* or by kill(), leaves cols and rows as they were.
C18_ResizeAfterExitNoOp ==
  [][\A t \in T :
       (ExitDelivered(t) /\ Resize(t)) =>
         /\ term'[t].cols = term[t].cols
         /\ term'[t].rows = term[t].rows]_vars

\* C19: after a read of a Terminal has returned a negative value other than
\* the exit sentinel, the Terminal issues no bun_pty_read, bun_pty_write or
\* bun_pty_resize on the handle, whatever the caller calls.
C19_OnlyCloseAfterReadError ==
  \A t \in T :
    "read_error" \in Range(calls[t]) =>
      post[t] \cap {"read", "write", "resize"} = {}

\* C20: at most one read of a Terminal returns the exit sentinel, and after
\* it the Terminal issues no further bun_pty_read.
C20_OneSentinel ==
  \A t \in T :
    /\ Count(calls[t], "sentinel") <= 1
    /\ "sentinel" \in Range(calls[t]) =>
         "read" \notin post[t] /\ pc[t] = "done"

\* the loop has read the sentinel and stopped although its condition still
\* holds, and the caller and its listeners went on calling the Terminal
C20_Witness ==
  \E t \in T :
    /\ "sentinel" \in Range(calls[t])
    /\ LoopCond(term[t])
    /\ chunks[t] # <<>>
    /\ used[t].calls = MaxCalls
    /\ events[t][Len(events[t])].heard

\* C21: the first kill() of a Terminal fires, before it returns and with no
\* help of the read loop, an onExit event that carries the signal name the
\* caller passed and reaches the listeners registered at that moment.
NewEvents(t) == SubSeq(events'[t], Len(events[t]) + 1, Len(events'[t]))

C21_KillFiresExit ==
  [][\A t \in T :
       /\ (used[t].kills = 0 /\ used'[t].kills > 0) =>
            \E i \in 1..Len(NewEvents(t)) :
              /\ NewEvents(t)[i].ev.type = "exit"
              /\ NewEvents(t)[i].ev.signal \in Signals
              /\ NewEvents(t)[i].heard = term[t].listening
       /\ (/\ used[t].kills = 0
           /\ used'[t].kills > 0
           /\ running = 0
           /\ term[t].phase = "ready"
           /\ UNCHANGED <<pc, running>>) =>
            \A signal \in Signals, rs \in ReactionStacks, w0 \in {World} :
              Adopt(DoKill(w0, t, signal, rs)) =>
                /\ Len(NewEvents(t)) >= 1
                /\ NewEvents(t)[1] = [ev |-> KillExitEvent(signal),
                                      heard |-> term[t].listening]
                /\ NewEvents(t)[1].ev.signal = signal]_vars

\* kill("SIGKILL") was called and its event was heard while the read loop
\* is still asleep
C21_Witness ==
  \E t \in T :
    /\ used[t].kills = 1
    /\ pc[t] = "sleep"
    /\ term[t].closing
    /\ Len(events[t]) >= 1
    /\ events[t][Len(events[t])] =
         [ev |-> [type |-> "exit", exitCode |-> 0, signal |-> "SIGKILL"],
          heard |-> TRUE]

\* C22: an exit event carries a signal exactly when the child was ended by
\* a signal; the event of a child that exited on its own has no signal.
C22_SignalIffSignalled ==
  \A t \in T :
    \A i \in 1..Len(ExitEvents(t)) :
      (ExitEvents(t)[i].ev.signal # NoSignal) <=> eng.sess[t].bySignal

\* C23: for every file name and every list of arguments, the shell splits
\* the command line of the constructor into exactly [file, ...args].
C23_CmdlineRoundTrip ==
  cmd.stage = "split" => cmd.words = <<cmd.file>> \o cmd.args

\* C24: two Terminals whose handles have not been closed never hold the same
\* handle number, and the handle of an open Terminal leads to its own
\* session; a number is handed out again only after its holder's close.
Open(t) == term[t].phase \in {"ctor", "ready"} /\ ~Closed(t)

C24_OpenHandlesDistinct ==
  \A t1, t2 \in T :
    /\ (t1 # t2 /\ Open(t1) /\ Open(t2)) => term[t1].handle # term[t2].handle
    /\ Open(t1) => Lookup(eng, term[t1].handle) = t1

\* a Terminal constructed after another one was killed holds the number the
\* killed one still remembers
C24_Witness ==
  \E t1, t2 \in T :
    /\ t1 # t2
    /\ term[t1].phase = "ready"
    /\ Closed(t1)
    /\ Open(t2)
    /\ term[t2].phase = "ready"
    /\ term[t1].handle = term[t2].handle

\* C25: bun_pty_get_exit_code is called only right after a read returned the
\* exit sentinel and before any bun_pty_close of the handle; detecting the
\* exit does not close the handle.
C25_ExitCodeAfterSentinel ==
  \A t \in T :
    /\ \A i \in 1..Len(calls[t]) :
         calls[t][i] = "get_exit_code" =>
           /\ i > 1 /\ calls[t][i - 1] = "sentinel"
           /\ \A j \in 1..i : calls[t][j] # "close"
    /\ \A i \in 1..Len(calls[t]) :
         calls[t][i] = "sentinel" =>
           i < Len(calls[t]) /\ calls[t][i + 1] = "get_exit_code"
    /\ ("sentinel" \in Range(calls[t]) /\ used[t].kills = 0) =>
         ~Closed(t) /\ Lookup(eng, term[t].handle) = t

\* the exit code was fetched after the sentinel, and the handle was closed
\* later, by kill()
C25_Witness ==
  \E t \in T :
    calls[t] = <<"spawn", "get_pid", "sentinel", "get_exit_code",
                 "kill", "close">>

\* C26: the cols and rows of a constructed Terminal are changed only by
\* resize(): a step that changes them is no write(), no kill() and no turn
\* of the read loop whose listeners do not call resize().
NoResize(rs) == \A i \in 1..Len(rs) : rs[i].op # "resize"

SizeChanged(t) ==
  \/ term'[t].cols # term[t].cols
  \/ term'[t].rows # term[t].rows

C26_OnlyResizeChangesSize ==
  [][\A t \in T :
       (term[t].phase # "new" /\ SizeChanged(t)) =>
         /\ ~Write(t)
         /\ ~Kill(t)
         /\ \A n \in ReadOutcomes(eng, term[t].handle, BufSize),
               rs \in ReactionStacks :
              NoResize(rs) => ~LoopStepWith(t, n, rs)]_vars

\* write(), kill() and the read loop, with data and the exit event, have
\* all acted on a Terminal that was resized
C26_Witness ==
  \E t \in T :
    /\ term[t].cols = 100
    /\ eng.sess[t].cols = 100
    /\ used[t].kills >= 1
    /\ chunks[t] # <<>>
    /\ Len(ExitEvents(t)) >= 1

\* C27: the pid of a Terminal is set during construction and no later step
\* changes it, also after the child has exited and the handle was closed.
C27_PidImmutable ==
  [][\A t \in T :
       /\ term[t].phase # "new" => term'[t].pid = term[t].pid
       /\ term[t].phase = "new" =>
            term'[t].pid \in {NoPid, eng'.sess[t].pid}]_vars

\* the Terminal still reports its child's pid although its handle was closed
\* and now belongs to a session with another pid
C27_Witness ==
  \E t \in T :
    /\ Closed(t)
    /\ term[t].pid = eng.sess[t].pid
    /\ term[t].pid > 0
    /\ Lookup(eng, term[t].handle) = Other
    /\ EngGetPid(eng, term[t].handle) # term[t].pid
    /\ used[t].calls = MaxCalls

\* C28: the read loop yields to the event loop again and again: whenever it
\* holds the JavaScript thread it lets go of it after finitely many reads,
\* also when every read returns data.
C28_LoopYields ==
  \A t \in T : (running = t) ~> (running # t)

\* C29: no onData or onExit event is fired before the constructor has
\* returned, whatever the first read returns.
C29_NoEventInConstructor ==
  \A t \in T : term[t].phase = "ctor" => events[t] = <<>>

\* C30: the read loop ends: once kill() was called, a read returned a
\* negative value or the child is no longer alive, the loop reaches its end;
\* after kill() it does so at its next wake-up without another read, and a
\* loop that has ended stays ended, with no timer pending.
MustEnd(t) ==
  \/ term[t].phase \in {"ctor", "ready"} /\ term[t].closing
  \/ LoopEnded(calls[t])
  \/ term[t].phase \in {"ctor", "ready"} /\ ~eng.sess[t].alive

C30_LoopTerminates ==
  /\ \A t \in T : MustEnd(t) ~> (pc[t] = "done")
  /\ [](\A t \in T : /\ "read" \notin late[t]
                      /\ LoopEnded(calls[t]) => pc[t] = "done")
  /\ [][\A t \in T :
          /\ pc[t] = "done" => pc'[t] = "done"
          /\ (term[t].closing /\ pc'[t] # pc[t]) => pc'[t] = "done"]_vars

\* kill() was called while the loop was asleep, and the loop has ended at
\* its next wake-up
C30_Witness ==
  \E t \in T :
    /\ pc[t] = "done"
    /\ term[t].closing
    /\ ~LoopEnded(calls[t])
    /\ used[t].kills >= 1
    /\ late[t] = {}

\* C31: at most one read loop is ever active per Terminal.  However often
\* _startReadLoop is called, it goes on to its while loop once; a loop that
\* is reading or asleep is that one loop; every chunk read is delivered by
\* one data event; and a second call of _startReadLoop reads nothing and
\* leaves the loop, the engine and the events as they were.
C31_OneReadLoop ==
  /\ [](\A t \in T :
         /\ term[t].loops <= 1
         /\ pc[t] \in {"top", "sleep"} => term[t].loops = 1
         /\ Len(DataEvents(t)) = Len(chunks[t]))
  /\ [][\A t \in T :
          StartReadLoopAgain(t) =>
            UNCHANGED <<pc, running, eng, events, chunks, calls>>]_vars

\* _startReadLoop has been called a second time, the loop has read a chunk
\* and is asleep until its next read.
C31_Witness ==
  \E t \in T :
    /\ term[t].starts = 2
    /\ pc[t] = "sleep"
    /\ chunks[t] # <<>>

\* The libraries of the platform package in directory d: the file with
\* the platform's library name and the file the package's index.mjs names.
PkgLibs(m, d) ==
  {PkgLib(d, getLibraryFilename(m.platform, m.arch))}
    \cup (IF IndexMjs(d) \in m.files /\ m.content[d] \notin {Unreadable, NoMatch}
            THEN {PkgLib(d, m.content[d])} ELSE {})

Least(S) == CHOOSE x \in S : \A y \in S : x <= y

\* C32: resolveLibPath picks the library by a fixed priority over the files
\* that exist: the file BUN_PTY_LIB names when it is set and the file
\* exists; otherwise an existing library of the platform package in the
\* first node_modules directory of the search order that holds one;
\* otherwise the first existing build path; it throws 'librust_pty shared
\* library not found' when none exists, and a path it returns exists.
C32_LibPathPriority ==
  load.stage = "resolved" =>
    LET m == load.m
        r == load.libPath
        envOk == m.env # NoEnv /\ m.env \in m.files
        pk == {d \in Dirs : PkgLibs(m, d) \cap m.files # {}}
        dv == {j \in Builds : BuildPath(m, j) # Nothing}
    IN  /\ r # NotFound => r \in m.files
        /\ envOk => r = m.env
        /\ ~envOk /\ pk # {} => r \in PkgLibs(m, Least(pk)) \cap m.files
        /\ ~envOk /\ pk = {} /\ dv # {} => r = BuildPath(m, Least(dv))
        /\ ~envOk /\ pk = {} /\ dv = {} => r = NotFound

\* The bytes of the chunks, one after the other
RECURSIVE Concat(_)
Concat(cs) == IF cs = <<>> THEN <<>> ELSE Head(cs) \o Concat(Tail(cs))

\* The bytes are the UTF-8 encoding of a text: no character is cut short.
WellFormed(bytes) == Utf8Encode(Utf8Decode(bytes)) = bytes

\* C33: the strings delivered through onData, one after the other, are the
\* UTF-8 decoding of the bytes the reads returned, one after the other,
\* however the engine splits the bytes into chunks: whenever the bytes read
\* so far end at the end of a character, the payloads so far are their
\* decoding.
C33_DecodesWholeStream ==
  \A t \in T :
    WellFormed(Concat(chunks[t])) =>
      Payloads(DataEvents(t)) = Utf8Decode(Concat(chunks[t]))

====
